---- MODULE Spec2Model ----
(***************************************************************************)
(* Model of the Draper-Grover subset-sum library (ssp):                    *)
(*   solver.py        DGSSPSolver  - register sizing, gates, assembly      *)
(*   measurements.py  Results      - decoding of measurement counts        *)
(*   stats.py         Stats        - benchmark loops and records           *)
(*   visualization.py Plots        - load_data guard of the plot methods   *)
(* Each component has its own specification over its own variables.        *)
(***************************************************************************)
EXTENDS Integers, Sequences, FiniteSets, TLC

VARIABLES
    solver,     \* the DGSSPSolver object: <<>> before __init__, <<fields>> after
    step,       \* <<instruction list>> returned by assembly(), <<>> before
    qc,         \* <<circuit>> returned by solve(), <<>> before
    iters,      \* the iterations argument of the last solve()
    pc,         \* next instruction of step to run on the branch (0: no run)
    branch,     \* the branch the step circuit is being run on
    xin,        \* index-register value of the branch at its start
    results,    \* the Results object: <<>> before __init__, <<fields>> after
    counts,     \* the counts dict last passed to instance_result, in key order
    inst,       \* the instance [A, t] last passed to instance_result
    answer,     \* <<list>> returned by instance_result, <<>> before
    success,    \* <<success_prob>> computed by Stats.run step 4, <<>> before
    stats,      \* the Stats object: <<>> before __init__, <<fields>> after
    called,     \* the Stats method called last: "", "run" or "run_transpiled"
    records,    \* the list `records` of that call when it returned or raised
    raised,     \* the exception that call raised, "" when it returned
    backend,    \* what the simulator or transpiler did during that call
    plots,      \* the Plots object: <<>> before __init__, <<fields>> after
    df,         \* self.df of the Plots object: <<>> for None, <<frame>> loaded
    loaded,     \* history: a load_data() call on the object has returned
    csv,        \* what read_csv found in the last load_data() call
    method,     \* the Plots method called last, "" before the first call
    error,      \* the exception that call raised, "" when it returned
    files       \* names of the files the plot methods have saved

solverVars == <<solver, step, qc, iters, pc, branch, xin>>
resultsVars == <<results, counts, inst, answer, success>>
statsVars == <<stats, called, records, raised, backend>>
plotsVars == <<plots, df, loaded, csv, method, error, files>>
vars == <<solverVars, resultsVars, statsVars, plotsVars>>

\* ------------------------------------------------------------ initial state
\* No object has been constructed and nothing has been called.
NoBranch == [k |-> <<>>, v |-> <<>>, ph |-> 0, ok |-> TRUE, unit |-> 1]

SolverIdle ==
    /\ solver = <<>> /\ step = <<>> /\ qc = <<>> /\ iters = 0
    /\ pc = 0 /\ branch = NoBranch /\ xin = 0

ResultsIdle ==
    /\ results = <<>> /\ counts = <<>> /\ inst = [A |-> <<>>, t |-> 0]
    /\ answer = <<>> /\ success = <<>>

StatsIdle ==
    /\ stats = <<>> /\ called = "" /\ records = <<>> /\ raised = ""
    /\ backend = <<>>

PlotsIdle ==
    /\ plots = <<>> /\ df = <<>> /\ loaded = FALSE /\ csv = <<>>
    /\ method = "" /\ error = "" /\ files = {}

Init == SolverIdle /\ ResultsIdle /\ StatsIdle /\ PlotsIdle

\* ------------------------------------------------------------------ bounds
\* Longest element list A of a solver instance.
MaxLen == 2
\* Elements of A range over -MaxAbs..MaxAbs.
MaxAbs == 2
\* Targets t range over -MaxT..MaxT.
MaxT == 4
\* Elements of the instances decoded by Results range over -ResAbs..ResAbs.
ResAbs == 1
\* Targets of the instances decoded by Results range over -ResT..ResT.
ResT == 1
\* Most bitstrings in a counts dict passed to instance_result.
MaxKeys == 2
\* Largest count of one bitstring in such a dict.
MaxCount == 2

\* Grover iterations passed to solve() range over 0..MaxIter.
MaxIter == 2
\* Histograms summed into success_probability hold up to MaxSolKeys keys,
\* each counted 1..MaxSolCount times.
MaxSolKeys == 4
MaxSolCount == 4
\* A benchmark set ds holds up to MaxSizes size groups and up to
\* MaxInstances instances in all.
MaxSizes == 2
MaxInstances == 2
\* A CSV file holds up to MaxTypes different values of assembly_type.
MaxTypes == 3

\* --------------------------------------------------------- program constants
\* shots of a Results object: 10**5 in example1.py.
ExampleShots == 100000
\* Default of the shots parameter of Stats.
DefaultShots == 100000

\* ------------------------------------------------------------ small helpers
Pow2(n) == 2 ^ n

RECURSIVE SumSeq(_)
\* Python's sum() over a list of ints.
SumSeq(s) == IF s = <<>> THEN 0 ELSE Head(s) + SumSeq(Tail(s))

RECURSIVE Concat(_)
\* Concatenation of a sequence of sequences.
Concat(ss) == IF ss = <<>> THEN <<>> ELSE Head(ss) \o Concat(Tail(ss))

\* range(n) as a sequence <<0, ..., n-1>>.
Range(n) == [i \in 1..n |-> i - 1]

\* Python's (t >> j) & 1 on an unbounded int: bit j of the two's complement.
BitOf(t, j) == (t \div Pow2(j)) % 2

Elems == (0 - MaxAbs)..MaxAbs
Lists == UNION {[1..n -> Elems] : n \in 0..MaxLen}
Targets == (0 - MaxT)..MaxT
AssemblyTypes == {"FullQFT", "HalfQFT"}

\* ========================================================================
\*  solver.py : DGSSPSolver
\* ========================================================================

RECURSIVE CeilLog2(_)
\* int(np.ceil(np.log2(r))) for r >= 1 (exact for the integers modelled).
CeilLog2(r) == IF r <= 1 THEN 0 ELSE 1 + CeilLog2((r + 1) \div 2)

\* sum(a for a in A if a < 0)
SumNeg(A) == SumSeq([i \in 1..Len(A) |-> IF A[i] < 0 THEN A[i] ELSE 0])
\* sum(a for a in A if a > 0)
SumPos(A) == SumSeq([i \in 1..Len(A) |-> IF A[i] > 0 THEN A[i] ELSE 0])

\* self.range_len
RangeLen(A) == SumPos(A) - SumNeg(A) + 1

\* (mutant of NSum: the +1 of range_len forgotten)
NSum_NoPlusOne(A) == CeilLog2(SumPos(A) - SumNeg(A))

\* self.n_sum
NSum(A) == CeilLog2(RangeLen(A))

\* DGSSPSolver.__init__ : the fields of the constructed object.
NewSolver(A, t, atype) ==
    [A |-> A, t |-> t, assembly_type |-> atype,
     sum_neg |-> SumNeg(A), sum_pos |-> SumPos(A),
     range_len |-> RangeLen(A),
     n_sum |-> NSum(A), n_ind |-> Len(A)]

\* One instruction of a circuit.  qubits/clbits index the bits of the circuit
\* that holds the instruction; a cp gate has angle 2*pi*num/den; body is the
\* definition of a composite gate over its own qubits 0.. (empty otherwise).
Instr(name, qubits, clbits, num, den, body) ==
    [name |-> name, qubits |-> qubits, clbits |-> clbits,
     num |-> num, den |-> den, body |-> body]

Prim(name, qubits) == Instr(name, qubits, <<>>, 0, 1, <<>>)
GateOf(name, qubits, body) == Instr(name, qubits, <<>>, 0, 1, body)

\* Qubit positions of the registers inside a circuit built on (ind, summ).
IndQ(s) == Range(s.n_ind)
SummQ(s) == [j \in 1..s.n_sum |-> s.n_ind + j - 1]

\* sum_gate(): for k, a: for j: cp(2*pi*(a % modulus)/2**(j+1), ind[k], summ[j])
SumGateBody(s) ==
    Concat([k \in 1..s.n_ind |->
        [j \in 1..s.n_sum |->
            Instr("cp", <<k - 1, s.n_ind + j - 1>>, <<>>,
                  s.A[k] % Pow2(s.n_sum), Pow2(j), <<>>)]])

\* (mutant of SubGateBody: a used where -a is meant)
SubGateBody_NotNegated(s) == SumGateBody(s)

\* sub_gate(): the same loops with neg = (-a) % modulus
SubGateBody(s) ==
    Concat([k \in 1..s.n_ind |->
        [j \in 1..s.n_sum |->
            Instr("cp", <<k - 1, s.n_ind + j - 1>>, <<>>,
                  (0 - s.A[k]) % Pow2(s.n_sum), Pow2(j), <<>>)]])

\* The x gates on the sum qubits where t has a 0 bit (both loops of oracle_gate).
OracleFlips(s) ==
    Concat([j \in 1..s.n_sum |->
        IF BitOf(s.t, j - 1) = 0 THEN <<Prim("x", <<j - 1>>)>> ELSE <<>>])

\* (mutant of OracleGateBody: the flipped bits are not flipped back)
OracleGateBody_NoUnflip(s) ==
    OracleFlips(s)
    \o <<Prim("h", <<s.n_sum - 1>>),
         Prim("mcx", Range(s.n_sum)),
         Prim("h", <<s.n_sum - 1>>)>>

\* oracle_gate(): flips, H-MCX-H on summ[-1] controlled by summ[:-1], unflips.
OracleGateBody(s) ==
    OracleFlips(s)
    \o <<Prim("h", <<s.n_sum - 1>>),
         Prim("mcx", Range(s.n_sum)),
         Prim("h", <<s.n_sum - 1>>)>>
    \o OracleFlips(s)

\* grover_diffuser(): H-X on all, H-MCX-H on ind[-1], X-H on all.
DiffuserBody(s) ==
    Concat([k \in 1..s.n_ind |-> <<Prim("h", <<k - 1>>), Prim("x", <<k - 1>>)>>])
    \o <<Prim("h", <<s.n_ind - 1>>),
         Prim("mcx", Range(s.n_ind)),
         Prim("h", <<s.n_ind - 1>>)>>
    \o Concat([k \in 1..s.n_ind |-> <<Prim("x", <<k - 1>>), Prim("h", <<k - 1>>)>>])

\* qc.h(summ[:]) : one h instruction per sum qubit.
HLayer(s) == [j \in 1..s.n_sum |-> Prim("h", <<s.n_ind + j - 1>>)]

\* self.qft / self.iqft : QFT(n_sum, do_swaps=False) and its inverse, as gates.
QftGate(s) == Prim("QFT", SummQ(s))
IqftGate(s) == Prim("iQFT", SummQ(s))
\* qc.append(self.iqft, summ[:]).inverse() : the appended iqft instruction is
\* replaced in the circuit by its inverse.
IqftInverted(s) == Prim("iQFT_dg", SummQ(s))

SumGate(s) == GateOf("SumGate", IndQ(s) \o SummQ(s), SumGateBody(s))
SubGate(s) == GateOf("SubGate", IndQ(s) \o SummQ(s), SubGateBody(s))
OracleGate(s) == GateOf("OracleGate", SummQ(s), OracleGateBody(s))
GroverDiffuser(s) == GateOf("GroverDiffuser", IndQ(s), DiffuserBody(s))

\* (mutant of Assembly: the HalfQFT branch subtracts with the sum gate)
Assembly_HalfAddsTwice(s) ==
    IF s.assembly_type = "FullQFT"
    THEN <<QftGate(s), SumGate(s), IqftGate(s),
           OracleGate(s),
           QftGate(s), SubGate(s), IqftGate(s)>>
    ELSE IF s.assembly_type = "HalfQFT"
    THEN HLayer(s) \o <<SumGate(s), IqftGate(s)>>
         \o <<OracleGate(s)>>
         \o <<IqftInverted(s), SumGate(s)>> \o HLayer(s)
    ELSE <<>>

\* assembly(): the instruction list of the DGSSP_Step circuit.
Assembly(s) ==
    IF s.assembly_type = "FullQFT"
    THEN <<QftGate(s), SumGate(s), IqftGate(s),
           OracleGate(s),
           QftGate(s), SubGate(s), IqftGate(s)>>
    ELSE IF s.assembly_type = "HalfQFT"
    THEN HLayer(s) \o <<SumGate(s), IqftGate(s)>>
         \o <<OracleGate(s)>>
         \o <<IqftInverted(s), SubGate(s)>> \o HLayer(s)
    ELSE <<>>

\* The gates need at least one control for their mcx: index [-1] of an empty
\* register fails, and so does an mcx without control qubits.
Buildable(s) == s.n_ind >= 2 /\ s.n_sum >= 2

\* (mutant of GroverIteration: the diffuser appended before the step)
GroverIteration_DiffuserFirst(s) ==
    <<GroverDiffuser(s),
      Prim("barrier", IndQ(s) \o SummQ(s)),
      GateOf("DGSSP_Step", IndQ(s) \o SummQ(s), Assembly(s)),
      Prim("barrier", IndQ(s) \o SummQ(s))>>

\* One pass of the Grover loop of solve().
GroverIteration(s) ==
    <<GateOf("DGSSP_Step", IndQ(s) \o SummQ(s), Assembly(s)),
      Prim("barrier", IndQ(s) \o SummQ(s)),
      GroverDiffuser(s),
      Prim("barrier", IndQ(s) \o SummQ(s))>>

RECURSIVE Repeat(_, _)
\* for _ in range(n): append the instructions of one pass.
Repeat(ops, n) == IF n <= 0 THEN <<>> ELSE ops \o Repeat(ops, n - 1)

\* solve(iterations): the circuit with its registers and instruction list.
Solve(s, iterations) ==
    [num_qubits |-> s.n_ind + s.n_sum,
     num_clbits |-> s.n_ind,
     data |->
        [k \in 1..s.n_ind |-> Prim("h", <<k - 1>>)]
        \o <<Prim("barrier", IndQ(s) \o SummQ(s))>>
        \o Repeat(GroverIteration(s), iterations)
        \o [k \in 1..s.n_ind |->
               Instr("measure", <<k - 1>>, <<k - 1>>, 0, 1, <<>>)]]

\* ------------------------------------------------------------------------
\* Action of the step circuit on one branch: the index register in a basis
\* state, every qubit a product-state factor.  A qubit is "b" (basis, v the
\* bit), "e" (|0> + exp(2 pi i v / unit)|1>, v in 0..unit-1) or "o" (any
\* other state, not tracked); ph is the phase of the branch, in units of
\* 2 pi / unit, and unit = 2^n_sum.
\* ------------------------------------------------------------------------
Untracked(st) == [st EXCEPT !.k = [q \in DOMAIN st.k |-> "o"], !.ok = FALSE]

AllKind(st, qs, kind) == \A i \in 1..Len(qs) : st.k[qs[i]] = kind

\* Value of the basis state held by the qubits qs, least significant first.
ValueOf(st, qs) == SumSeq([i \in 1..Len(qs) |-> st.v[qs[i]] * Pow2(i - 1)])

\* Phase of qubit j (0-based) of QFT|x> on n qubits without swaps:
\* 2 pi x / 2^(j+1).
QftPhase(x, j, n) == (x * Pow2(n - j - 1)) % Pow2(n)

\* Phase of qubit j of the inverse QFT applied to |x>:
\* 2 pi (x_j / 2 - sum_{i > j} x_i / 2^(i-j+1)).
IqftPhase(x, j, n) ==
    (BitOf(x, j) * Pow2(n - 1)
     - SumSeq([d \in 1..(n - 1 - j) |-> BitOf(x, j + d) * Pow2(n - 1 - d)]))
    % Pow2(n)

\* A library transform on the register qs: basis states go to the product
\* state Phase(x, j, n); the product states InvPhase(x, j, n) of the inverse
\* transform go back to |x>; anything else is not tracked.
Transform(st, qs, Phase(_, _, _), InvPhase(_, _, _)) ==
    LET n == Len(qs) IN
    IF AllKind(st, qs, "b")
    THEN LET x == ValueOf(st, qs) IN
         [st EXCEPT
            !.k = [q \in DOMAIN st.k |->
                     IF \E i \in 1..n : qs[i] = q THEN "e" ELSE st.k[q]],
            !.v = [q \in DOMAIN st.v |->
                     IF \E i \in 1..n : qs[i] = q
                     THEN Phase(x, (CHOOSE i \in 1..n : qs[i] = q) - 1, n)
                     ELSE st.v[q]]]
    ELSE IF AllKind(st, qs, "e")
            /\ \E x \in 0..(Pow2(n) - 1) :
                  \A i \in 1..n : st.v[qs[i]] = InvPhase(x, i - 1, n)
    THEN LET x == CHOOSE x \in 0..(Pow2(n) - 1) :
                     \A i \in 1..n : st.v[qs[i]] = InvPhase(x, i - 1, n) IN
         [st EXCEPT
            !.k = [q \in DOMAIN st.k |->
                     IF \E i \in 1..n : qs[i] = q THEN "b" ELSE st.k[q]],
            !.v = [q \in DOMAIN st.v |->
                     IF \E i \in 1..n : qs[i] = q
                     THEN BitOf(x, (CHOOSE i \in 1..n : qs[i] = q) - 1)
                     ELSE st.v[q]]]
    ELSE Untracked(st)

\* x on one qubit.
ApplyX(st, q) ==
    IF st.k[q] = "b" THEN [st EXCEPT !.v[q] = 1 - st.v[q]]
    ELSE IF st.k[q] = "e"
    THEN [st EXCEPT !.v[q] = (0 - st.v[q]) % st.unit,
                    !.ph = (st.ph + st.v[q]) % st.unit]
    ELSE Untracked(st)

\* h on one qubit.
ApplyH(st, q) ==
    IF st.k[q] = "b"
    THEN [st EXCEPT !.k[q] = "e", !.v[q] = st.v[q] * (st.unit \div 2)]
    ELSE IF st.k[q] = "e" /\ st.v[q] \in {0, st.unit \div 2}
    THEN [st EXCEPT !.k[q] = "b", !.v[q] = IF st.v[q] = 0 THEN 0 ELSE 1]
    ELSE Untracked(st)

\* cp(2 pi num/den) on the pair (c, q): the phase is applied where both are 1.
ApplyCP(st, c, q, num, den) ==
    LET add == (num * (st.unit \div den)) % st.unit IN
    IF st.k[c] = "b" /\ st.v[c] = 0 THEN st
    ELSE IF st.k[q] = "b" /\ st.v[q] = 0 THEN st
    ELSE IF st.k[c] = "b" /\ st.k[q] = "e"
    THEN [st EXCEPT !.v[q] = (st.v[q] + add) % st.unit]
    ELSE IF st.k[c] = "e" /\ st.k[q] = "b"
    THEN [st EXCEPT !.v[c] = (st.v[c] + add) % st.unit]
    ELSE IF st.k[c] = "b" /\ st.k[q] = "b"
    THEN [st EXCEPT !.ph = (st.ph + add) % st.unit]
    ELSE Untracked(st)

\* mcx(controls, target): qs lists the controls and then the target.
ApplyMCX(st, qs) ==
    LET ctl == SubSeq(qs, 1, Len(qs) - 1) IN
    IF \E i \in 1..Len(ctl) : st.k[ctl[i]] = "b" /\ st.v[ctl[i]] = 0 THEN st
    ELSE IF AllKind(st, ctl, "b") THEN ApplyX(st, qs[Len(qs)])
    ELSE Untracked(st)

RECURSIVE Apply(_, _)
RECURSIVE ApplySeq(_, _, _)
\* One instruction on the branch.
Apply(st, ins) ==
    IF ~st.ok THEN st
    ELSE IF ins.name = "x" THEN ApplyX(st, ins.qubits[1])
    ELSE IF ins.name = "h" THEN ApplyH(st, ins.qubits[1])
    ELSE IF ins.name = "cp"
    THEN ApplyCP(st, ins.qubits[1], ins.qubits[2], ins.num, ins.den)
    ELSE IF ins.name = "mcx" THEN ApplyMCX(st, ins.qubits)
    ELSE IF ins.name \in {"QFT", "iQFT_dg"}
    THEN Transform(st, ins.qubits, QftPhase, IqftPhase)
    ELSE IF ins.name = "iQFT"
    THEN Transform(st, ins.qubits, IqftPhase, QftPhase)
    ELSE IF ins.name = "barrier" THEN st
    ELSE ApplySeq(st, ins.body, ins.qubits)

\* The instructions of a gate body, its qubit i being qubit map[i+1] outside.
ApplySeq(st, body, map) ==
    IF body = <<>> THEN st
    ELSE ApplySeq(
            Apply(st, [Head(body) EXCEPT
                         !.qubits = [i \in 1..Len(Head(body).qubits) |->
                                        map[Head(body).qubits[i] + 1]]]),
            Tail(body), map)

\* The branch |x>|0> before a step: x is the value of the index register.
Branch(s, x) ==
    [k |-> [q \in 0..(s.n_ind + s.n_sum - 1) |-> "b"],
     v |-> [q \in 0..(s.n_ind + s.n_sum - 1) |->
              IF q < s.n_ind THEN BitOf(x, q) ELSE 0],
     ph |-> 0, ok |-> TRUE, unit |-> Pow2(s.n_sum)]

\* The subset of A selected by the index value x: A[k] where bit k of x is 1.
Selected(A, x) == [k \in 1..Len(A) |-> IF BitOf(x, k - 1) = 1 THEN A[k] ELSE 0]

\* ========================================================================
\*  measurements.py : Results
\* ========================================================================

RECURSIVE Gcd(_, _)
Gcd(a, b) == IF b = 0 THEN a ELSE Gcd(b, a % b)

\* raw_count / total_shots: Python's true division of two positive ints gives
\* the double nearest to the quotient.  The double is held as the quotient in
\* lowest terms; for the integers modelled distinct quotients are distinct
\* doubles, in the same order.
TrueDiv(a, b) == [n |-> a \div Gcd(a, b), d |-> b \div Gcd(a, b)]

\* (mutant of Reversed: the bitstring read from its left end)
Reversed_NotReversed(state) == state

\* list(reversed(state))
Reversed(state) == [i \in 1..Len(state) |-> state[Len(state) + 1 - i]]

\* [A[i] for i, bit in enumerate(subset_qubits) if bit == '1']
Subset(A, subset_qubits) ==
    Concat([i \in 1..Len(subset_qubits) |->
               IF subset_qubits[i] = "1" THEN <<A[i]>> ELSE <<>>])

RECURSIVE InsertDesc_Strict(_, _)
\* (mutant of InsertDesc: an item also passes the items of its own count, as
\* when an ascending sort is reversed)
InsertDesc_Strict(sorted, item) ==
    IF sorted = <<>> THEN <<item>>
    ELSE IF Head(sorted).n > item.n
         THEN <<Head(sorted)>> \o InsertDesc_Strict(Tail(sorted), item)
         ELSE <<item>> \o sorted

RECURSIVE InsertDesc(_, _)
\* item placed behind every entry of the sorted list whose count is >= its own.
InsertDesc(sorted, item) ==
    IF sorted = <<>> THEN <<item>>
    ELSE IF Head(sorted).n >= item.n
         THEN <<Head(sorted)>> \o InsertDesc(Tail(sorted), item)
         ELSE <<item>> \o sorted

RECURSIVE SortedItems(_)
\* sorted(counts.items(), key=lambda kv: kv[1], reverse=True): stable.
SortedItems(items) ==
    IF items = <<>> THEN <<>>
    ELSE InsertDesc(SortedItems(SubSeq(items, 1, Len(items) - 1)),
                    items[Len(items)])

\* sum(counts.values())
TotalShots(cnts) == SumSeq([i \in 1..Len(cnts) |-> cnts[i].n])

\* The body of the loop of instance_result for one (state, raw_count) pair.
EntryFor(item, A, t, total_shots) ==
    LET subset == Subset(A, Reversed(item.state)) IN
    IF SumSeq(subset) = t
    THEN <<[subset |-> subset, prob |-> TrueDiv(item.n, total_shots)]>>
    ELSE <<>>

\* (mutant of InstanceResult: the loop stops at the first pair that misses t)
InstanceResult_Break(cnts, A, t) ==
    LET sorted == SortedItems(cnts)
        miss == {i \in 1..Len(sorted) :
                    EntryFor(sorted[i], A, t, TotalShots(cnts)) = <<>>}
        stop == IF miss = {} THEN Len(sorted) + 1
                ELSE CHOOSE i \in miss : \A j \in miss : i <= j
    IN  Concat([i \in 1..(stop - 1) |->
                   EntryFor(sorted[i], A, t, TotalShots(cnts))])

\* Results.instance_result(counts, A, t)
InstanceResult(cnts, A, t) ==
    LET total_shots == TotalShots(cnts)
        sorted_items == SortedItems(cnts)
    IN  Concat([i \in 1..Len(sorted_items) |->
                   EntryFor(sorted_items[i], A, t, total_shots)])

\* ------------------------------------------------------------------------
\* IEEE-754 binary64 arithmetic on positive values, as Python's float does
\* it.  A double is [hi, lo, e]: mantissa hi * 2^27 + lo of 53 bits (2^25 <=
\* hi < 2^26, lo < 2^27) and value mantissa * 2^e; zero is [0, 0, 0].
\* ------------------------------------------------------------------------
Limb == Pow2(27)
FZero == [hi |-> 0, lo |-> 0, e |-> 0]
FOne == [hi |-> Pow2(25), lo |-> 0, e |-> 0 - 52]

\* Mantissa (hi, lo) + up, renormalised when it reaches 2^53.
Rounded(hi, lo, e, up) ==
    LET lo1 == lo + (IF up THEN 1 ELSE 0)
        hi1 == hi + (lo1 \div Limb)
    IN  IF hi1 >= Pow2(26)
        THEN [hi |-> hi1 \div 2,
              lo |-> ((lo1 % Limb) \div 2) + (hi1 % 2) * Pow2(26),
              e |-> e + 1]
        ELSE [hi |-> hi1, lo |-> lo1 % Limb, e |-> e]

RECURSIVE Quotient(_, _, _, _, _, _)
\* Long division: `left` more mantissa bits of r/d behind the mantissa
\* (hi, lo), then round to nearest, ties to even, on the remainder.
Quotient(r, d, hi, lo, e, left) ==
    IF left = 0
    THEN Rounded(hi, lo, e, 2 * r > d \/ (2 * r = d /\ lo % 2 = 1))
    ELSE LET bit == IF 2 * r >= d THEN 1 ELSE 0
             lo2 == 2 * lo + bit
         IN  Quotient(2 * r - bit * d, d,
                      2 * hi + (lo2 \div Limb), lo2 % Limb, e, left - 1)

RECURSIVE ToDouble(_, _, _)
\* The double nearest n / d * 2^(-s), for ints n, d > 0.
ToDouble(n, d, s) ==
    IF n < d THEN ToDouble(2 * n, d, s + 1)
    ELSE IF n >= 2 * d THEN ToDouble(n, 2 * d, s - 1)
    ELSE Quotient(n - d, d, 0, 1, 0 - 52 - s, 52)

\* The double a quotient held in lowest terms stands for.
DoubleOf(q) == ToDouble(q.n, q.d, 0)

\* <<high limb, low limb>> pairs compared as numbers: -1, 0 or 1.
CmpPair(a, b) ==
    IF a[1] # b[1] THEN (IF a[1] < b[1] THEN 0 - 1 ELSE 1)
    ELSE IF a[2] # b[2] THEN (IF a[2] < b[2] THEN 0 - 1 ELSE 1)
    ELSE 0

\* x + y for doubles x, y >= 0 with x.e >= y.e, rounded to nearest even.
FAddOrdered(x, y) ==
    LET d == x.e - y.e IN
    IF d > 53 THEN x
    ELSE
    LET qhi == IF d < 27 THEN y.hi \div Pow2(d) ELSE 0
        qlo == IF d < 27
               THEN (y.lo \div Pow2(d)) + (y.hi % Pow2(d)) * Pow2(27 - d)
               ELSE y.hi \div Pow2(d - 27)
        rem == IF d < 27 THEN <<0, y.lo % Pow2(d)>>
               ELSE <<y.hi % Pow2(d - 27), y.lo>>
        half == IF d = 0 THEN <<0, 0>>
                ELSE IF d < 28 THEN <<0, Pow2(d - 1)>>
                ELSE <<Pow2(d - 28), 0>>
        lo == x.lo + qlo
        hi == x.hi + qhi + (lo \div Limb)
        low == lo % Limb
    IN  IF hi < Pow2(26)
        THEN Rounded(hi, low, x.e,
                     CmpPair(rem, half) > 0
                     \/ (CmpPair(rem, half) = 0 /\ d > 0 /\ low % 2 = 1))
        ELSE LET mlo == (low \div 2) + (hi % 2) * Pow2(26)
                 mhi == hi \div 2
             IN  Rounded(mhi, mlo, x.e + 1,
                         low % 2 = 1
                         /\ (rem # <<0, 0>> \/ mlo % 2 = 1))

\* x + y for doubles x, y >= 0.
FAdd(x, y) ==
    IF x = FZero THEN y
    ELSE IF y = FZero THEN x
    ELSE IF x.e >= y.e THEN FAddOrdered(x, y) ELSE FAddOrdered(y, x)

\* x <= y for doubles x, y >= 0.
FLe(x, y) ==
    IF x = FZero THEN TRUE
    ELSE IF y = FZero THEN FALSE
    ELSE IF x.e # y.e THEN x.e < y.e
    ELSE CmpPair(<<x.hi, x.lo>>, <<y.hi, y.lo>>) <= 0

RECURSIVE FSumFrom(_, _)
FSumFrom(acc, probs) ==
    IF probs = <<>> THEN acc
    ELSE FSumFrom(FAdd(acc, DoubleOf(Head(probs))), Tail(probs))

\* sum(prob for (_, prob) in solutions_with_prob): the built-in sum() adds
\* the doubles from left to right, starting from 0 (CPython up to 3.11).
SuccessProb(solutions_with_prob) ==
    FSumFrom(FZero, [i \in 1..Len(solutions_with_prob) |->
                        solutions_with_prob[i].prob])

\* ------------------------------------------------------------------------
\* Stats: the benchmark loops of run() and run_transpiled()
\* ------------------------------------------------------------------------
\* self.assembly_types and self.basis_gates
StatsAssemblyTypes == <<"FullQFT", "HalfQFT">>
BasisGates ==
    <<"ecr", "id", "delay", "measure", "reset",
      "rz", "sx", "x", "if_else", "for_loop", "switch_case">>

\* Stats.__init__ : the fields of the constructed object.  ds is the nested
\* dict in iteration order: a sequence of [size, insts], insts a sequence of
\* [inst_id, A, t].
NewStatsObject(ds, shots) ==
    [ds |-> ds, shots |-> shots,
     assembly_types |-> StatsAssemblyTypes, basis_gates |-> BasisGates]

\* The elements of a sequence.
Values(seq) == {seq[i] : i \in 1..Len(seq)}

\* Operations named `name` in an instruction list.
CountOf(ops, name) == Cardinality({i \in 1..Len(ops) : ops[i].name = name})

\* QuantumCircuit.count_ops(): how often each operation name occurs.
CountOps(ops) ==
    [name \in {ops[i].name : i \in 1..Len(ops)} |-> CountOf(ops, name)]

\* QuantumCircuit.size(): the operations that are not directives (barriers).
Size(c) == Len(c.data) - CountOf(c.data, "barrier")

\* QuantumCircuit.width(): quantum plus classical bits.
Width(c) == c.num_qubits + c.num_clbits

RECURSIVE DepthFrom(_, _, _)
\* QuantumCircuit.depth(): every operation lifts the bits it touches to the
\* highest of their levels, plus one unless it is a directive.
DepthFrom(ops, op_stack, nq) ==
    IF ops = <<>>
    THEN CHOOSE m \in Values(op_stack) : \A l \in Values(op_stack) : l <= m
    ELSE LET ins == Head(ops)
             bits == {ins.qubits[i] + 1 : i \in 1..Len(ins.qubits)}
                     \cup {nq + ins.clbits[i] + 1 : i \in 1..Len(ins.clbits)}
             count == IF ins.name = "barrier" THEN 0 ELSE 1
             level == CHOOSE m \in {op_stack[b] + count : b \in bits} :
                          \A b \in bits : op_stack[b] + count <= m
         IN  DepthFrom(Tail(ops),
                       [b \in DOMAIN op_stack |->
                           IF b \in bits THEN level ELSE op_stack[b]],
                       nq)

Depth(c) == DepthFrom(c.data, [b \in 1..Width(c) |-> 0], c.num_qubits)

\* QuantumCircuit.decompose(): composite gates are replaced by their
\* definition, h by the u2 gate that defines it; barriers and measures stay.
Decompose(ops) ==
    Concat([i \in 1..Len(ops) |->
               IF ops[i].body # <<>> THEN ops[i].body
               ELSE IF ops[i].name = "h" THEN <<Prim("u2", ops[i].qubits)>>
               ELSE <<ops[i]>>])

\* Bitstring of the low n bits of x, most significant bit first.
KeyOf(x, n) ==
    [i \in 1..n |-> IF BitOf(x % Pow2(n), n - i) = 1 THEN "1" ELSE "0"]

\* result.get_counts() of a run of `shots` shots that the simulator spread as
\* sim says: all on the key of sim.x but sim.s shots on the next key.
Histogram(n, shots, sim) ==
    IF sim.s = 0
    THEN <<[state |-> KeyOf(sim.x, n), n |-> shots]>>
    ELSE <<[state |-> KeyOf(sim.x, n), n |-> shots - sim.s],
           [state |-> KeyOf(sim.x + 1, n), n |-> sim.s]>>

\* Runs of the simulator: where the shots fell and the seconds it took.
SimOutcomes ==
    {[x |-> 1, s |-> 0, dt |-> 0],
     [x |-> 1, s |-> 1, dt |-> 1],
     [x |-> 2, s |-> 1, dt |-> 1]}

\* transpile(qc, basis_gates=...): registers, barriers and measures are kept;
\* every other operation becomes how.rz rz, as many sx and one ecr gate, and
\* how.x x gates are left over.  count_ops() lists what occurs at least once.
Transpile(c, how) ==
    LET measures == CountOf(c.data, "measure")
        gates == Size(c) - measures
        all == [g \in {"rz", "sx", "ecr", "x", "measure", "barrier"} |->
                   CASE g = "rz" -> how.rz * gates
                     [] g = "sx" -> how.rz * gates
                     [] g = "ecr" -> gates
                     [] g = "x" -> how.x
                     [] g = "measure" -> measures
                     [] g = "barrier" -> CountOf(c.data, "barrier")]
    IN  [num_qubits |-> c.num_qubits,
         num_clbits |-> c.num_clbits,
         depth |-> (2 * how.rz + 1) * gates + how.x + 1,
         size |-> (2 * how.rz + 1) * gates + how.x + measures,
         ops |-> [g \in {h \in DOMAIN all : all[h] > 0} |-> all[g]]]

\* Results of the transpiler.
TranspileOutcomes == {[rz |-> 1, x |-> 0], [rz |-> 2, x |-> 1]}

\* (mutant of Combos: the loop over the assembly types outermost)
Combos_AssemblyOutermost(ds, assembly_types) ==
    Concat([a \in 1..Len(assembly_types) |->
        Concat([g \in 1..Len(ds) |->
            [i \in 1..Len(ds[g].insts) |->
                [size |-> ds[g].size,
                 inst_id |-> ds[g].insts[i].inst_id,
                 A |-> ds[g].insts[i].A,
                 t |-> ds[g].insts[i].t,
                 assembly |-> assembly_types[a]]]])])

\* The loop nest of run() and of run_transpiled(): for size, insts in
\* ds.items(), for inst_id, params in insts.items(), for assembly in
\* assembly_types; the loop variables of each pass of the innermost body.
Combos(ds, assembly_types) ==
    Concat([g \in 1..Len(ds) |->
        Concat([i \in 1..Len(ds[g].insts) |->
            [a \in 1..Len(assembly_types) |->
                [size |-> ds[g].size,
                 inst_id |-> ds[g].insts[i].inst_id,
                 A |-> ds[g].insts[i].A,
                 t |-> ds[g].insts[i].t,
                 assembly |-> assembly_types[a]]]])])

\* solver.solve(iterations=1) of a fresh DGSSPSolver(A, t, assembly)
SolvedOnce(v) == Solve(NewSolver(v.A, v.t, v.assembly), 1)

\* The record that one pass of the loop body of run() appends.  The gate
\* counts are unpacked last and so win over an earlier key of the same name.
RunRecord(v, shots, sim) ==
    LET c == SolvedOnce(v)
        cnts == Histogram(c.num_clbits, shots, sim)
        solutions_with_prob == InstanceResult(cnts, v.A, v.t)
        gate_counts == CountOps(Decompose(c.data))
    IN  gate_counts @@
        [size |-> v.size,
         instance_id |-> v.inst_id,
         assembly_type |-> v.assembly,
         solutions |-> [i \in 1..Len(solutions_with_prob) |->
                           solutions_with_prob[i].subset],
         num_qubits |-> c.num_qubits,
         num_clbits |-> c.num_clbits,
         depth |-> Depth(c),
         width |-> Width(c),
         circuit_size |-> Size(c),
         execution_time_sec |-> sim.dt,
         success_probability |-> SuccessProb(solutions_with_prob)]

\* (mutant of BasisGateColumns: the counted operations as they come, the
\* way run() unpacks them)
BasisGateColumns_AsCounted(gate_counts, basis_gates) == gate_counts

\* {str(g): int(gate_counts.get(g, 0)) for g in self.basis_gates}
BasisGateColumns(gate_counts, basis_gates) ==
    [g \in Values(basis_gates) |->
        IF g \in DOMAIN gate_counts THEN gate_counts[g] ELSE 0]

\* The record that one pass of the loop body of run_transpiled() appends.
TranspiledRecord(v, basis_gates, how) ==
    LET qc_tp == Transpile(SolvedOnce(v), how)
    IN  BasisGateColumns(qc_tp.ops, basis_gates) @@
        [size |-> v.size,
         instance_id |-> v.inst_id,
         assembly_type |-> v.assembly,
         num_qubits |-> qc_tp.num_qubits,
         num_clbits |-> qc_tp.num_clbits,
         depth |-> qc_tp.depth,
         width |-> qc_tp.num_qubits + qc_tp.num_clbits,
         circuit_size |-> qc_tp.size]

\* How many passes of the loop body finish: the first instance whose solver
\* cannot build its gates ends the call with that exception.
Finished(combos) ==
    LET bad == {i \in 1..Len(combos) :
                   ~Buildable(NewSolver(combos[i].A, combos[i].t,
                                        combos[i].assembly))}
    IN  IF bad = {} THEN Len(combos)
        ELSE (CHOOSE i \in bad : \A j \in bad : i <= j) - 1

\* How the call ends once the loops are over or have been left: the solver's
\* exception, the KeyError of set_index on a frame without columns, or the
\* return of the frame.
Outcome(combos) ==
    IF Finished(combos) < Len(combos) THEN "Exception"
    ELSE IF combos = <<>> THEN "KeyError"
    ELSE ""

\* ------------------------------------------------------------------------
\* Plots: load_data() and the six plot methods
\* ------------------------------------------------------------------------
\* The keys of a record of run_transpiled() that are not gate columns: the
\* metadata_cols of the histogram plots.
MetaKeys ==
    {"size", "instance_id", "assembly_type",
     "num_qubits", "num_clbits", "depth", "width", "circuit_size"}

\* selected_gates of the plot_selected_gates_* methods
SelectedGates == {"ecr", "rz", "sx", "x"}

\* A DataFrame as far as the plot methods depend on it: its columns and the
\* number of different values in its assembly_type column.
Frame(columns, types) == [columns |-> columns, types |-> types]

\* (mutant of LoadOutcome: self.df assigned before the columns are checked)
LoadOutcome_AssignsFirst(old, read) ==
    IF read = <<>> THEN [df |-> old, error |-> "FileNotFoundError"]
    ELSE IF ~({"size", "assembly_type"} \subseteq read[1].columns)
    THEN [df |-> read, error |-> "ValueError"]
    ELSE [df |-> read, error |-> ""]

\* (mutant of LoadOutcome: a failed check of the columns resets self.df)
LoadOutcome_ResetsOnFailure(old, read) ==
    IF read = <<>> THEN [df |-> old, error |-> "FileNotFoundError"]
    ELSE IF ~({"size", "assembly_type"} \subseteq read[1].columns)
    THEN [df |-> <<>>, error |-> "ValueError"]
    ELSE [df |-> read, error |-> ""]

\* load_data(): self.df afterwards and the exception raised, when read_csv
\* found no file (read = <<>>) or parsed the frame read[1].
LoadOutcome(old, read) ==
    IF read = <<>> THEN [df |-> old, error |-> "FileNotFoundError"]
    ELSE IF ~({"size", "assembly_type"} \subseteq read[1].columns)
    THEN [df |-> old, error |-> "ValueError"]
    ELSE [df |-> read, error |-> ""]

\* df.groupby(by)[metric] for every metric: a missing column is a KeyError.
LinesFailure(frame, by, metrics) ==
    IF (by \cup metrics) \subseteq frame.columns THEN "" ELSE "KeyError"

\* The histogram plots draw one of their two axes per assembly type, each
\* from the columns that are not metadata.
HistogramFailure(frame, by) ==
    IF ~(({by, "assembly_type"}) \subseteq frame.columns) THEN "KeyError"
    ELSE IF frame.columns \ MetaKeys = {} THEN "TypeError"
    ELSE IF frame.types > 2 THEN "IndexError"
    ELSE ""

\* The body of each plot method behind its guard: the exception it raises,
\* "" when it gets to savefig.
PlotFailure(name, frame) ==
    CASE name = "plot_transpiled_stats" ->
            LinesFailure(frame, {"size", "assembly_type"},
                         {"num_qubits", "depth", "width", "circuit_size"})
      [] name = "plot_gate_counts_histogram" ->
            HistogramFailure(frame, "size")
      [] name = "plot_selected_gates_vs_size" ->
            LinesFailure(frame, {"size", "assembly_type"}, SelectedGates)
      [] name = "plot_transpiled_stats_vs_num_qubits" ->
            LinesFailure(frame, {"num_qubits", "assembly_type"},
                         {"depth", "width", "circuit_size", "size"})
      [] name = "plot_gate_counts_histogram_vs_num_qubits" ->
            HistogramFailure(frame, "num_qubits")
      [] name = "plot_selected_gates_vs_num_qubits" ->
            LinesFailure(frame, {"num_qubits", "assembly_type"},
                         SelectedGates)

\* A plot method from its guard to its end: the exception raised, "" when
\* the figure was saved.  saved tells whether savefig could write the file.
PlotOutcome(name, d, saved) ==
    IF d = <<>> THEN "RuntimeError"
    ELSE IF PlotFailure(name, d[1]) # "" THEN PlotFailure(name, d[1])
    ELSE IF ~saved THEN "OSError"
    ELSE ""

\* ------------------------------------------------------------------------
\* Specifications of the solver
\* ------------------------------------------------------------------------

\* DGSSPSolver(A, t, assembly_type)
New(A, t, atype) ==
    /\ solver = <<>>
    /\ solver' = <<NewSolver(A, t, atype)>>
    /\ UNCHANGED <<step, qc, iters, pc, branch, xin, resultsVars, statsVars, plotsVars>>

\* solver.assembly()
DoAssembly ==
    /\ solver # <<>> /\ step = <<>>
    /\ Buildable(solver[1])
    /\ step' = <<Assembly(solver[1])>>
    /\ UNCHANGED <<solver, qc, iters, pc, branch, xin, resultsVars, statsVars, plotsVars>>

\* solver.solve(iterations)
DoSolve(iterations) ==
    /\ solver # <<>> /\ qc = <<>>
    /\ Buildable(solver[1])
    /\ qc' = <<Solve(solver[1], iterations)>>
    /\ iters' = iterations
    /\ UNCHANGED <<solver, step, pc, branch, xin, resultsVars, statsVars, plotsVars>>

\* The step circuit is started on the branch |x>|0>.
Start(x) ==
    /\ step # <<>> /\ pc = 0
    /\ pc' = 1
    /\ branch' = Branch(solver[1], x)
    /\ xin' = x
    /\ UNCHANGED <<solver, step, qc, iters, resultsVars, statsVars, plotsVars>>

\* The next instruction of the step circuit acts on the branch.
Exec ==
    /\ pc >= 1 /\ pc <= Len(step[1])
    /\ branch' = Apply(branch, step[1][pc])
    /\ pc' = pc + 1
    /\ UNCHANGED <<solver, step, qc, iters, xin, resultsVars, statsVars, plotsVars>>

NewAny == solver = <<>> /\ \E A \in Lists, t \in Targets, atype \in AssemblyTypes : New(A, t, atype)
SolveAny == solver # <<>> /\ qc = <<>> /\ \E n \in 0..MaxIter : DoSolve(n)
StartAny == step # <<>> /\ \E x \in 0..(Pow2(solver[1].n_ind) - 1) : Start(x)

\* Construction of circuits.
SolverNext == NewAny \/ DoAssembly \/ SolveAny
SpecSolver == Init /\ [][SolverNext]_vars

\* One Grover step run on a branch of the index register.
StepNext == NewAny \/ DoAssembly \/ StartAny \/ Exec
SpecStep == Init /\ [][StepNext]_vars

\* ------------------------------------------------------------------------
\* Specification of Results
\* ------------------------------------------------------------------------
\* Bitstrings of length n, as sequences of the characters "0" and "1".
Bitstrings(n) == [1..n -> {"0", "1"}]

\* Counts dicts over n-bit keys: up to k distinct keys in any insertion
\* order, each counted 1..c times.
Dicts(n, k, c) ==
    UNION {{d \in [1..m -> [state : Bitstrings(n), n : 1..c]] :
               \A i, j \in 1..m : i # j => d[i].state # d[j].state}
           : m \in 0..k}

\* Instances decoded: every pair over -ResAbs..ResAbs, and the instance of
\* example1.py (A = [1, -3, 7], t = 5).
ResLists == [1..2 -> (0 - ResAbs)..ResAbs] \cup {<<1, -3, 7>>}
ResTargets == ((0 - ResT)..ResT) \cup {5}

\* Results(qc, shots)
NewResults(shots) ==
    /\ results = <<>>
    /\ results' = <<[shots |-> shots]>>
    /\ UNCHANGED <<counts, inst, answer, success, solverVars, statsVars, plotsVars>>

\* results.instance_result(counts, A, t)
CallInstanceResult(cnts, A, t) ==
    /\ results # <<>> /\ answer = <<>>
    /\ counts' = cnts
    /\ inst' = [A |-> A, t |-> t]
    /\ answer' = <<InstanceResult(cnts, A, t)>>
    /\ UNCHANGED <<results, success, solverVars, statsVars, plotsVars>>

NewResultsAny == NewResults(ExampleShots)
InstanceResultAny ==
    /\ results # <<>> /\ answer = <<>>
    /\ \E A \in ResLists, t \in ResTargets :
          \E cnts \in Dicts(Len(A), MaxKeys, MaxCount) :
              CallInstanceResult(cnts, A, t)

ResultsNext == NewResultsAny \/ InstanceResultAny
SpecResults == Init /\ [][ResultsNext]_vars

\* ------------------------------------------------------------------------
\* Specification of the measurement step of Stats.run
\* ------------------------------------------------------------------------
\* Step 4 of the loop body of Stats.run: the histogram that the simulator
\* returned is decoded by instance_result and the probabilities of the
\* solutions are added up by sum().
Measure(cnts, A, t) ==
    /\ results # <<>> /\ success = <<>>
    /\ counts' = cnts
    /\ inst' = [A |-> A, t |-> t]
    /\ answer' = <<InstanceResult(cnts, A, t)>>
    /\ success' = <<SuccessProb(answer'[1])>>
    /\ UNCHANGED <<results, solverVars, statsVars, plotsVars>>

\* Instances measured: every pair over 0..ResAbs with a target in 0..ResT.
SolLists == [1..2 -> 0..ResAbs]

MeasureAny ==
    /\ results # <<>> /\ success = <<>>
    /\ \E A \in SolLists, t \in 0..ResT :
          \E cnts \in Dicts(Len(A), MaxSolKeys, MaxSolCount) :
              Measure(cnts, A, t)

SuccessNext == NewResultsAny \/ MeasureAny
SpecSuccess == Init /\ [][SuccessNext]_vars

\* ------------------------------------------------------------------------
\* Specification of Stats
\* ------------------------------------------------------------------------
\* Instances of the benchmark sets: the first instances of sizes 2 and 3 of
\* benchmark_example.py, and a single-element list, for which the solver
\* cannot build its gates.
InstancePool ==
    {[A |-> <<1, 2>>, t |-> 1],
     [A |-> <<1, 2, 3>>, t |-> 1],
     [A |-> <<1>>, t |-> 1]}

\* The size keys of ds.
SizeKeys == 2..(MaxSizes + 1)

\* One entry of ds: the instances are numbered 1, 2, ... as in the example.
Group(size, params) ==
    [size |-> size,
     insts |-> [i \in 1..Len(params) |->
                   [inst_id |-> i, A |-> params[i].A, t |-> params[i].t]]]

RECURSIVE GroupLists(_)
\* The lists of instance lists whose lengths are lens[1], lens[2], ...
GroupLists(lens) ==
    IF lens = <<>> THEN {<<>>}
    ELSE {<<ps>> \o rest : ps \in [1..Head(lens) -> InstancePool],
                           rest \in GroupLists(Tail(lens))}

\* The benchmark sets: up to MaxSizes groups under distinct size keys, in any
\* insertion order, with up to MaxInstances instances in all.
Datasets ==
    UNION {UNION {{[i \in 1..g |-> Group(keys[i], pss[i])] :
                      keys \in {k \in [1..g -> SizeKeys] :
                                   \A i, j \in 1..g : i # j => k[i] # k[j]},
                      pss \in GroupLists(lens)}
                  : lens \in {l \in [1..g -> 0..MaxInstances] :
                                 SumSeq(l) <= MaxInstances}}
           : g \in 0..MaxSizes}

\* Stats(ds, shots)
NewStats(ds, shots) ==
    /\ stats = <<>>
    /\ stats' = <<NewStatsObject(ds, shots)>>
    /\ UNCHANGED <<called, records, raised, backend,
                   solverVars, resultsVars, plotsVars>>

\* stats.run(), with the simulator behaving as sim in every pass
Run(sim) ==
    /\ stats # <<>>
    /\ LET combos == Combos(stats[1].ds, stats[1].assembly_types)
       IN  /\ records' = [i \in 1..Finished(combos) |->
                             RunRecord(combos[i], stats[1].shots, sim)]
           /\ raised' = Outcome(combos)
    /\ called' = "run"
    /\ backend' = <<sim>>
    /\ UNCHANGED <<stats, solverVars, resultsVars, plotsVars>>

\* stats.run_transpiled(), with the transpiler behaving as how in every pass
RunTranspiled(how) ==
    /\ stats # <<>>
    /\ LET combos == Combos(stats[1].ds, stats[1].assembly_types)
       IN  /\ records' = [i \in 1..Finished(combos) |->
                             TranspiledRecord(combos[i], stats[1].basis_gates,
                                              how)]
           /\ raised' = Outcome(combos)
    /\ called' = "run_transpiled"
    /\ backend' = <<how>>
    /\ UNCHANGED <<stats, solverVars, resultsVars, plotsVars>>

NewStatsAny == stats = <<>> /\ \E ds \in Datasets : NewStats(ds, DefaultShots)
RunAny == stats # <<>> /\ \E sim \in SimOutcomes : Run(sim)
RunTranspiledAny ==
    stats # <<>> /\ \E how \in TranspileOutcomes : RunTranspiled(how)

StatsNext == NewStatsAny \/ RunAny \/ RunTranspiledAny
SpecStats == Init /\ [][StatsNext]_vars

\* ------------------------------------------------------------------------
\* Specification of Plots
\* ------------------------------------------------------------------------
\* The six plot methods.
PlotMethods ==
    {"plot_transpiled_stats", "plot_gate_counts_histogram",
     "plot_selected_gates_vs_size", "plot_transpiled_stats_vs_num_qubits",
     "plot_gate_counts_histogram_vs_num_qubits",
     "plot_selected_gates_vs_num_qubits"}

\* The columns of the CSV that save_transpiled_to_csv writes.
FullColumns == MetaKeys \cup Values(BasisGates)

\* What read_csv may find at csv_path: no file (<<>>), or a CSV of the
\* benchmark that lacks some of the columns size, assembly_type, depth and x
\* and holds 1..MaxTypes assembly types.
CsvReads ==
    {<<>>} \cup
    {<<Frame(FullColumns \ drop, types)>> :
        drop \in SUBSET {"size", "assembly_type", "depth", "x"},
        types \in 1..MaxTypes}

\* Names passed as output_png, from plot_example.py.
PngNames == {"stats_vs_size.png", "histogram_vs_size.png"}

\* Plots(csv_path)
NewPlots(csv_path) ==
    /\ plots = <<>>
    /\ plots' = <<[csv_path |-> csv_path]>>
    /\ df' = <<>>
    /\ UNCHANGED <<loaded, csv, method, error, files,
                   solverVars, resultsVars, statsVars>>

\* plots.load_data()
LoadData(read) ==
    /\ plots # <<>>
    /\ df' = LoadOutcome(df, read).df
    /\ error' = LoadOutcome(df, read).error
    /\ loaded' = (loaded \/ error' = "")
    /\ csv' = read
    /\ method' = "load_data"
    /\ UNCHANGED <<plots, files, solverVars, resultsVars, statsVars>>

\* One of the plot methods, called with output_png.
Plot(name, output_png, saved) ==
    /\ plots # <<>>
    /\ method' = name
    /\ error' = PlotOutcome(name, df, saved)
    /\ files' = IF error' = "" THEN files \cup {output_png} ELSE files
    /\ UNCHANGED <<plots, df, loaded, csv, solverVars, resultsVars, statsVars>>

NewPlotsAny == NewPlots("ssp_transpiled_benchmark_results.csv")
LoadDataAny == plots # <<>> /\ \E read \in CsvReads : LoadData(read)
PlotTranspiledStats ==
    \E png \in PngNames, saved \in BOOLEAN :
        Plot("plot_transpiled_stats", png, saved)
PlotGateCountsHistogram ==
    \E png \in PngNames, saved \in BOOLEAN :
        Plot("plot_gate_counts_histogram", png, saved)
PlotSelectedGatesVsSize ==
    \E png \in PngNames, saved \in BOOLEAN :
        Plot("plot_selected_gates_vs_size", png, saved)
PlotTranspiledStatsVsNumQubits ==
    \E png \in PngNames, saved \in BOOLEAN :
        Plot("plot_transpiled_stats_vs_num_qubits", png, saved)
PlotGateCountsHistogramVsNumQubits ==
    \E png \in PngNames, saved \in BOOLEAN :
        Plot("plot_gate_counts_histogram_vs_num_qubits", png, saved)
PlotSelectedGatesVsNumQubits ==
    \E png \in PngNames, saved \in BOOLEAN :
        Plot("plot_selected_gates_vs_num_qubits", png, saved)

PlotsNext ==
    \/ NewPlotsAny
    \/ LoadDataAny
    \/ PlotTranspiledStats
    \/ PlotGateCountsHistogram
    \/ PlotSelectedGatesVsSize
    \/ PlotTranspiledStatsVsNumQubits
    \/ PlotGateCountsHistogramVsNumQubits
    \/ PlotSelectedGatesVsNumQubits
SpecPlots == Init /\ [][PlotsNext]_vars

\* ========================================================================
\*  Claims about the solver
\* ========================================================================

\* The step circuit has run to its end on the branch.
StepDone == pc > 0 /\ pc = Len(step[1]) + 1

\* C2: one Grover step flips the phase of the index state x if and only if
\* the subset of A selected by x sums to t, for every instance and every
\* integer t (also t outside [sum_neg, sum_pos]).
C2_StepFlipsExactlySolutions ==
    StepDone =>
        /\ branch.ok
        /\ branch.ph =
             IF SumSeq(Selected(solver[1].A, xin)) = solver[1].t
             THEN branch.unit \div 2 ELSE 0

\* The instance A = [1, 2], t = 4: the step flips the phase of x = 00, the
\* empty subset, whose sum 0 is not t.
C2_FailingInput ==
    /\ StepDone
    /\ solver[1].A = <<1, 2>> /\ solver[1].t = 4 /\ xin = 0
    /\ branch.ph = branch.unit \div 2

C5_SolveOrder ==
    qc # <<>> =>
        LET s == solver[1]
            c == qc[1]
            n == s.n_ind
            all == [i \in 1..(s.n_ind + s.n_sum) |-> i - 1]
            ind == [i \in 1..s.n_ind |-> i - 1]
        IN  /\ c.num_qubits = s.n_ind + s.n_sum
            /\ c.num_clbits = s.n_ind
            /\ Len(c.data) = n + 1 + 4 * iters + n
            /\ \A k \in 1..n :
                  c.data[k].name = "h" /\ c.data[k].qubits = <<k - 1>>
            /\ c.data[n + 1].name = "barrier"
            /\ \A r \in 0..(iters - 1) :
                  LET base == n + 1 + 4 * r IN
                  /\ c.data[base + 1].name = "DGSSP_Step"
                  /\ c.data[base + 1].qubits = all
                  /\ c.data[base + 2].name = "barrier"
                  /\ c.data[base + 3].name = "GroverDiffuser"
                  /\ c.data[base + 3].qubits = ind
                  /\ c.data[base + 4].name = "barrier"
            /\ \A k \in 1..n :
                  LET m == c.data[n + 1 + 4 * iters + k] IN
                  m.name = "measure" /\ m.qubits = <<k - 1>> /\ m.clbits = <<k - 1>>
            /\ \A i \in 1..Len(c.data) :
                  c.data[i].name = "measure" => i > n + 1 + 4 * iters
            /\ iters = 0 => Len(c.data) = 2 * n + 1

\* A circuit solved with two Grover iterations.
C5_Witness == qc # <<>> /\ iters = 2 /\ Len(qc[1].data) > 2 * solver[1].n_ind + 1

\* The composite gate called name in the instruction list ops.
GateNamed(ops, name) == ops[CHOOSE i \in 1..Len(ops) : ops[i].name = name]

\* The cp instructions of a gate body on the pair (ind[k], summ[j]).
CpOn(body, k, j, n_ind) ==
    SelectSeq(body, LAMBDA g : g.name = "cp" /\ g.qubits = <<k, n_ind + j>>)

\* C6: sub_gate is the inverse of sum_gate: on every pair (ind[k], summ[j])
\* each gate applies one controlled phase, of angles 2 pi (a mod 2^n_sum) /
\* 2^(j+1) and 2 pi ((-a) mod 2^n_sum) / 2^(j+1), whose sum is a multiple of
\* 2 pi.
C6_SubInvertsSum ==
    step # <<>> =>
        LET s == solver[1]
            add == GateNamed(step[1], "SumGate").body
            sub == GateNamed(step[1], "SubGate").body
        IN  \A k \in 0..(s.n_ind - 1), j \in 0..(s.n_sum - 1) :
               LET p == CpOn(add, k, j, s.n_ind)
                   m == CpOn(sub, k, j, s.n_ind)
               IN  /\ Len(p) = 1 /\ Len(m) = 1
                   /\ p[1].den = Pow2(j + 1) /\ m[1].den = Pow2(j + 1)
                   /\ p[1].num \in 0..(Pow2(s.n_sum) - 1)
                   /\ m[1].num \in 0..(Pow2(s.n_sum) - 1)
                   /\ (p[1].num + m[1].num) % Pow2(j + 1) = 0

\* A step built over a negative and a positive element.
C6_Witness ==
    /\ step # <<>>
    /\ \E i \in 1..Len(solver[1].A) : solver[1].A[i] < 0
    /\ \E i \in 1..Len(solver[1].A) : solver[1].A[i] > 0
    /\ \E i \in 1..Len(GateNamed(step[1], "SubGate").body) :
          GateNamed(step[1], "SubGate").body[i].num # 0

RECURSIVE Layers(_)
\* The instruction list with every run of consecutive h instructions read as
\* one operation, a Hadamard layer on the qubits of the run.
Layers(ops) ==
    IF ops = <<>> THEN <<>>
    ELSE LET rest == Layers(Tail(ops)) IN
         IF Head(ops).name = "h" /\ rest # <<>> /\ rest[1].name = "h"
         THEN <<[rest[1] EXCEPT !.qubits = Head(ops).qubits \o rest[1].qubits]>>
              \o Tail(rest)
         ELSE <<Head(ops)>> \o rest

\* What assembly() returns for the same instance under the other type.
Twin(s, atype) == Layers(Assembly([s EXCEPT !.assembly_type = atype]))

SelectedBy(state) == {i \in 1..Len(state) : state[Len(state) + 1 - i] = "1"}

RECURSIVE SumAt(_, _)
\* Sum of the elements of A at the positions in idx.
SumAt(A, idx) ==
    IF idx = {} THEN 0
    ELSE LET i == CHOOSE i \in idx : TRUE IN A[i] + SumAt(A, idx \ {i})

\* Keys of the counts dict whose selected elements sum to t.
Matching == {i \in 1..Len(counts) : SumAt(inst.A, SelectedBy(counts[i].state)) = inst.t}

\* Entry e of the answer reports key i: its subset has the selected elements'
\* sum and size, and its probability is the key's share of all counts.
Reports(e, i) ==
    /\ Len(e.subset) = Cardinality(SelectedBy(counts[i].state))
    /\ SumSeq(e.subset) = SumAt(inst.A, SelectedBy(counts[i].state))
    /\ e.prob.n * TotalShots(counts) = e.prob.d * counts[i].n

\* C1: instance_result returns one entry per measured bitstring whose
\* selected elements sum to t, and no entry for any other bitstring.
C1_SoundAndComplete ==
    answer # <<>> =>
        LET ans == answer[1] IN
        /\ Len(ans) = Cardinality(Matching)
        /\ \A j \in 1..Len(ans) : SumSeq(ans[j].subset) = inst.t
        /\ \A j \in 1..Len(ans) : \E i \in Matching : Reports(ans[j], i)
        /\ \A i \in Matching : \E j \in 1..Len(ans) : Reports(ans[j], i)

\* A matching bitstring with a lower count than a bitstring that misses t.
C1_Witness ==
    /\ answer # <<>> /\ Len(answer[1]) = 1
    /\ \E i \in Matching : \E k \in 1..Len(counts) :
          k \notin Matching /\ counts[k].n > counts[i].n

C3_FailingInput ==
    /\ success # <<>>
    /\ inst = [A |-> <<0, 0>>, t |-> 0]
    /\ [i \in 1..Len(counts) |-> counts[i].n] = <<4, 3, 3, 3>>
    /\ ~FLe(success[1], FOne)

\* ========================================================================
\*  Claims about Stats
\* ========================================================================

\* A call of run() or run_transpiled() has returned its frame.
Returned == called # "" /\ raised = ""

\* Instances of the groups before group g of ds.
Before(ds, g) == SumSeq([h \in 1..(g - 1) |-> Len(ds[h].insts)])

\* What the record of a pass says about the circuit it was built from.
Metrics(r) ==
    <<r.num_qubits, r.num_clbits, r.depth, r.width, r.circuit_size>>

\* The metrics of the circuit that a fresh solver of the instance, solved
\* with one iteration, hands to the call.
FreshMetrics(A, t, assembly) ==
    LET c == Solve(NewSolver(A, t, assembly), 1)
        qc_tp == Transpile(c, backend[1])
    IN  IF called = "run"
        THEN <<c.num_qubits, c.num_clbits, Depth(c), Width(c), Size(c)>>
        ELSE <<qc_tp.num_qubits, qc_tp.num_clbits, qc_tp.depth,
               qc_tp.num_qubits + qc_tp.num_clbits, qc_tp.size>>

\* C8: run() and run_transpiled() each produce exactly one record for every
\* (size, instance_id, assembly_type), in the order size -> instance ->
\* assembly type with FullQFT before HalfQFT: the records are twice as many
\* as the instances of ds, and the record of each combination carries the
\* metrics of a fresh solver of that instance solved with iterations = 1.
C8_OneRecordPerCombination ==
    Returned =>
        LET ds == stats[1].ds IN
        /\ Len(records) = 2 * Before(ds, Len(ds) + 1)
        /\ \A g \in 1..Len(ds) : \A i \in 1..Len(ds[g].insts) :
           \A a \in 1..2 :
              LET r == records[2 * (Before(ds, g) + i - 1) + a]
                  assembly == IF a = 1 THEN "FullQFT" ELSE "HalfQFT"
              IN  /\ r.size = ds[g].size
                  /\ r.instance_id = ds[g].insts[i].inst_id
                  /\ r.assembly_type = assembly
                  /\ Metrics(r) = FreshMetrics(ds[g].insts[i].A,
                                               ds[g].insts[i].t, assembly)

\* A returned frame of four records over a size group that holds two
\* different instances.
C8_Witness ==
    /\ Returned
    /\ Len(stats[1].ds) = 1
    /\ Len(stats[1].ds[1].insts) = 2
    /\ stats[1].ds[1].insts[1].A # stats[1].ds[1].insts[2].A
    /\ Len(records) = 4

\* The operations counted in the transpiled circuit of the record r.
TranspiledOps(r) ==
    LET ds == stats[1].ds
        g == CHOOSE h \in 1..Len(ds) : ds[h].size = r.size
        p == ds[g].insts[r.instance_id]
    IN  Transpile(Solve(NewSolver(p.A, p.t, r.assembly_type), 1),
                  backend[1]).ops

\* C9: every record of run_transpiled() holds a count for each of the eleven
\* gates of basis_gates, 0 when the gate does not occur in the transpiled
\* circuit, and no other gate column, so all records have the same keys.
C9_BasisGateColumns ==
    called = "run_transpiled" =>
        \A i \in 1..Len(records) :
            /\ Cardinality(Values(BasisGates)) = 11
            /\ DOMAIN records[i] = MetaKeys \cup Values(BasisGates)
            /\ \A g \in Values(BasisGates) :
                  records[i][g] =
                      IF g \in DOMAIN TranspiledOps(records[i])
                      THEN TranspiledOps(records[i])[g] ELSE 0
            /\ \A j \in 1..Len(records) :
                  DOMAIN records[j] = DOMAIN records[i]

\* Records of both assembly types whose transpiled circuits hold barriers and
\* no x gate: x is reported as 0 and the barriers are not reported.
C9_Witness ==
    /\ called = "run_transpiled" /\ raised = ""
    /\ \E i, j \in 1..Len(records) :
          /\ records[i].assembly_type = "FullQFT"
          /\ records[j].assembly_type = "HalfQFT"
          /\ "barrier" \in DOMAIN TranspiledOps(records[i])
          /\ "x" \notin DOMAIN TranspiledOps(records[i])
          /\ records[i]["x"] = 0
          /\ records[i]["rz"] > 0

\* ========================================================================
\*  Claims about Plots
\* ========================================================================

\* C10: as long as no load_data() call has returned on the object, every
\* plot method raises RuntimeError and no output file is produced; once a
\* load_data() call has returned, no plot method raises the guard's
\* RuntimeError again.
C10_GuardUntilLoaded ==
    /\ ~loaded => files = {}
    /\ (method \in PlotMethods /\ ~loaded) => error = "RuntimeError"
    /\ (method \in PlotMethods /\ loaded) => error # "RuntimeError"

\* The sixth plot method has hit the guard on an object whose only
\* load_data() call so far failed or was never made.
C10_Witness ==
    /\ plots # <<>> /\ ~loaded
    /\ method = "plot_selected_gates_vs_num_qubits"
    /\ error = "RuntimeError"
    /\ files = {}

\* ========================================================================
\*  More claims about the step
\* ========================================================================

\* Position of the oracle in the step circuit: the add phase ends before it.
OracleAt == CHOOSE i \in 1..Len(step[1]) : step[1][i].name = "OracleGate"

\* The branch holds basis states: index register x, sum register value.
Holds(x, value) ==
    /\ branch.ok
    /\ AllKind(branch, IndQ(solver[1]) \o SummQ(solver[1]), "b")
    /\ ValueOf(branch, IndQ(solver[1])) = x
    /\ ValueOf(branch, SummQ(solver[1])) = value

\* C11: for both assembly types and every index basis state x, a step that
\* starts with the sum register at 0 holds (sum of the selected elements)
\* mod 2^n_sum in it after the add phase and 0 again after the subtract
\* phase, and leaves x in the index register; nothing but the step touches
\* the sum register in solve(), so every Grover iteration starts with it at 0.
C11_StepRestoresSumRegister ==
    pc > 0 =>
        /\ pc = 1 => Holds(xin, 0)
        /\ pc = OracleAt =>
              Holds(xin, SumSeq(Selected(solver[1].A, xin))
                            % Pow2(solver[1].n_sum))
        /\ StepDone => Holds(xin, 0)
        /\ LET data == Solve(solver[1], MaxIter).data IN
           \A i \in 1..Len(data) :
              data[i].name \notin {"DGSSP_Step", "barrier"} =>
                  \A q \in 1..Len(data[i].qubits) :
                      data[i].qubits[q] < solver[1].n_ind

\* A HalfQFT step has run to its end on a branch whose selected elements sum
\* to a negative number, which the sum register held modulo 2^n_sum.
C11_Witness ==
    /\ StepDone
    /\ solver[1].assembly_type = "HalfQFT"
    /\ SumSeq(Selected(solver[1].A, xin)) < 0
    /\ SumSeq(Selected(solver[1].A, xin)) % Pow2(solver[1].n_sum) # 0
    /\ Holds(xin, 0)

\* ========================================================================
\*  More claims about Results
\* ========================================================================

RECURSIVE PickFrom(_, _, _)
\* The elements of A at the positions in idx, from position i on, in the
\* order of A.
PickFrom(A, idx, i) ==
    IF i > Len(A) THEN <<>>
    ELSE (IF i \in idx THEN <<A[i]>> ELSE <<>>) \o PickFrom(A, idx, i + 1)

\* Place of the matching key i in the answer: behind the matching keys of a
\* higher count and those of the same count that come earlier in the dict.
Rank(i) ==
    1 + Cardinality({j \in Matching :
                        \/ counts[j].n > counts[i].n
                        \/ counts[j].n = counts[i].n /\ j < i})

\* C12: the list that instance_result returns is ordered by descending raw
\* count, so no entry has a lower probability than the entry behind it, and
\* entries of equal count keep the order of their bitstrings in the dict.
C12_DescendingAndStable ==
    answer # <<>> =>
        LET ans == answer[1] IN
        /\ \A k \in 1..(Len(ans) - 1) :
              ans[k].prob.n * ans[k + 1].prob.d
                  >= ans[k + 1].prob.n * ans[k].prob.d
        /\ \A i \in Matching :
              /\ Rank(i) <= Len(ans)
              /\ ans[Rank(i)].subset =
                     PickFrom(inst.A, SelectedBy(counts[i].state), 1)
              /\ ans[Rank(i)].prob = TrueDiv(counts[i].n, TotalShots(counts))

\* Two bitstrings of the same count that select different subsets, both
\* summing to t: they are reported in the order of the dict.
C12_Witness ==
    /\ answer # <<>> /\ Len(answer[1]) = 2 /\ Len(counts) = 2
    /\ counts[1].n = counts[2].n
    /\ answer[1][1].subset # answer[1][2].subset
    /\ answer[1][1].subset =
           PickFrom(inst.A, SelectedBy(counts[1].state), 1)

\* The key is the all-zero bitstring.
AllZero(state) == \A p \in 1..Len(state) : state[p] = "0"

\* C13: instance_result decodes bitstrings LSB-first: A[i] is in the subset
\* exactly when the character i places from the right end of the bitstring
\* is '1', and the subset lists the selected elements in the order of A;
\* the all-zero bitstring decodes to the empty subset, which is reported as
\* a solution exactly when t = 0.
C13_DecodesLsbFirst ==
    answer # <<>> =>
        \A i \in 1..Len(counts) :
            LET state == counts[i].state
                chosen == {p \in 1..Len(inst.A) :
                              state[Len(state) - (p - 1)] = "1"}
                subset == PickFrom(inst.A, chosen, 1)
                listed == \E k \in 1..Len(answer[1]) :
                             /\ answer[1][k].subset = subset
                             /\ answer[1][k].prob =
                                    TrueDiv(counts[i].n, TotalShots(counts))
            IN  /\ listed <=> SumSeq(subset) = inst.t
                /\ AllZero(state) => subset = <<>> /\ (listed <=> inst.t = 0)

\* A = [0, 1], t = 0 with the bitstrings '01' and '00' measured: '01' selects
\* A[0] alone, and the empty subset of '00' is a solution too.
C13_Witness ==
    /\ answer # <<>>
    /\ inst = [A |-> <<0, 1>>, t |-> 0]
    /\ {counts[i].state : i \in 1..Len(counts)} = {<<"0", "1">>, <<"0", "0">>}
    /\ {answer[1][k].subset : k \in 1..Len(answer[1])} = {<<0>>, <<>>}

\* ========================================================================
\*  More claims about Plots
\* ========================================================================

\* The CSV that the call read lacks the column size or assembly_type.
LacksRequired ==
    csv # <<>> /\ ~({"size", "assembly_type"} \subseteq csv[1].columns)

\* C14: load_data() raises ValueError when the CSV lacks the column size or
\* assembly_type, and a load_data() call that fails leaves self.df as it
\* was: None if nothing was loaded, the earlier frame otherwise.
C14_FailedLoadKeepsFrame ==
    [][LoadDataAny =>
          /\ (error' = "ValueError") <=> LacksRequired'
          /\ error' # "" => df' = df
          /\ error' = "" => df' = csv']_vars

\* A load_data() call has raised ValueError on an object that holds the
\* frame of an earlier call, read from a different CSV.
C14_Witness ==
    /\ method = "load_data" /\ error = "ValueError"
    /\ loaded /\ df # <<>> /\ df # csv
    /\ LacksRequired

====
